---- MODULE Spec2Model ----
(***************************************************************************)
(* django-grapevine: the admin handlers of grapevine/admin_base.py         *)
(* (send_real_message, send_test_message, send_message,                    *)
(* perform_bulk_edits, each routed through admin_site.admin_view) and the  *)
(* Mailgun transport adapter of grapevine/emails/backends/mailgun.py       *)
(* (EmailBackend._send).                                                   *)
(*                                                                         *)
(* A send is modelled in two steps, because obj.send blocks on the HTTP    *)
(* call to the provider: the request is accepted and obj.send is entered   *)
(* (SendRequest), and later the provider answers and the handler finishes  *)
(* (SendComplete).  Two request workers may interleave.                    *)
(***************************************************************************)
EXTENDS Integers, Sequences, FiniteSets, TLC

\* ------------------------------------------------------------------ bounds
MaxIds == 2          \* longest submitted bulk_edit_obj_id list
MaxRequests == 2     \* requests handled in one behaviour

\* ------------------------------------------------------------- the domain
ExistingIds == {1, 2}              \* pks of the Sendable rows in the table
SubmittableIds == {1, 2, 3}        \* pk 3 names no row
Workers == {"w1", "w2"}            \* request-handling threads

None == <<>>                       \* a NULL scheduled_send_time
T0 == <<"2023-12-31", "09:00:00">> \* a time a Sendable is scheduled at initially

\* request.user: the anonymous user (not authenticated, hence never staff), or
\* a row of the user table
Users ==
  { [pk |-> "anon",     is_authenticated |-> FALSE, is_staff |-> FALSE, is_active |-> FALSE, email |-> ""],
    [pk |-> "member",   is_authenticated |-> TRUE,  is_staff |-> FALSE, is_active |-> TRUE,  email |-> "m@x.com"],
    [pk |-> "retired",  is_authenticated |-> TRUE,  is_staff |-> TRUE,  is_active |-> FALSE, email |-> "r@x.com"],
    [pk |-> "staff0",   is_authenticated |-> TRUE,  is_staff |-> TRUE,  is_active |-> TRUE,  email |-> ""],
    [pk |-> "staff1",   is_authenticated |-> TRUE,  is_staff |-> TRUE,  is_active |-> TRUE,  email |-> "s@x.com"] }

Methods == {"GET", "POST", "PUT"}

\* The split date / time sub-fields of the bulk edit form, as submitted.
\* Nothing entered, a date and a time, a date without its time, a malformed
\* date: each with the cancellation box ticked or not.
DateTimeInputs ==
  { <<"", "">>, <<"2024-01-01", "10:00:00">>, <<"2024-01-01", "">>, <<"bad", "10:00:00">> }
Forms ==
  {[date |-> dt[1], time |-> dt[2], cancelled |-> c] : dt \in DateTimeInputs, c \in BOOLEAN}

RECURSIVE SeqsUpTo(_, _)
SeqsUpTo(S, n) ==
  IF n = 0 THEN {<<>>}
  ELSE LET shorter == SeqsUpTo(S, n - 1)
       IN  shorter \cup {Append(q, x) : q \in {p \in shorter : Len(p) = n - 1}, x \in S}

\* request.POST.getlist('bulk_edit_obj_id').  The handler uses the list only
\* through pk__in and len(), so one ordering of each list stands for all.
IdLists ==
  {q \in SeqsUpTo(SubmittableIds, MaxIds) : \A i \in 1..(Len(q) - 1) : q[i] <= q[i + 1]}

VARIABLES
  sendables,       \* pk -> the Sendable row
  log,             \* admin.models.LogEntry rows, oldest first
  inflight,        \* worker -> the send_message call blocked in obj.send, or Idle
  nreq,            \* requests received so far
  fail_silently,   \* EmailBackend.fail_silently
  failure_reason,  \* EmailBackend.failure_reason, Unset until first assigned
  last,            \* the request handled last and how it ended
  template_id,     \* pk -> the Sendable's template_id
  templates        \* template id -> the template row

vars == <<sendables, log, inflight, nreq, fail_silently, failure_reason, last,
          template_id, templates>>

Idle == [busy |-> FALSE]
Unset == [set |-> FALSE]

NoForm == [date |-> "", time |-> "", cancelled |-> FALSE]
NoNet == [error |-> FALSE, status |-> 0, json |-> FALSE]

\* How a handler ended.  Fields a handler never read keep their defaults.
Ended(op, user, response, notice) ==
  [op |-> op, user |-> user, response |-> response, notice |-> notice,
   obj_id |-> 0, is_test |-> FALSE, ids |-> <<>>, form |-> NoForm, count |-> 0,
   result |-> "none", contacted |-> FALSE, net |-> NoNet]

Range(q) == {q[i] : i \in DOMAIN q}

Min(S) == CHOOSE x \in S : \A y \in S : x <= y

RECURSIVE Ascending(_)
Ascending(S) == IF S = {} THEN <<>> ELSE <<Min(S)>> \o Ascending(S \ {Min(S)})

\* ------------------------------------------------------------- routing
\* A route registered without the admin_view wrapper lets every user in.
admin_view_absent(user) == TRUE

\* admin_site.admin_view(view), as get_urls registers every view: the view
\* runs only when AdminSite.has_permission holds (an active staff user);
\* anyone else is sent to the login page.

admin_view(user) == user.is_active /\ user.is_staff

\* --------------------------------------------------------- the bulk edit
\* forms.SplitDateTimeField(required=False): both parts empty is an empty
\* value, a malformed or a missing part is a validation error, two good parts
\* are combined into one datetime.
SplitDateTimeClean(date, time) ==
  IF date = "" /\ time = "" THEN [valid |-> TRUE, value |-> None]
  ELSE IF date \in {"", "bad"} \/ time \in {"", "bad"} THEN [valid |-> FALSE, value |-> None]
  ELSE [valid |-> TRUE, value |-> <<date, time>>]

\* form.full_clean(); form.cleaned_data: the fields that validated.
full_clean(form) ==
  LET st == SplitDateTimeClean(form.date, form.time)
      fields == {"cancelled_at_send_time"}
                \cup (IF st.valid THEN {"scheduled_send_time"} ELSE {})
  IN  [f \in fields |-> IF f = "scheduled_send_time" THEN st.value ELSE form.cancelled]

\* Python truth of a cleaned value: None and False are falsy.
Truthy(f, v) == IF f = "cancelled_at_send_time" THEN v = TRUE ELSE v # None

\* update_dict without the "if value:" test
update_dict_unfiltered(cleaned) == cleaned

\* for field_name, value in form.cleaned_data.items(): if value: ...

update_dict(cleaned) ==
  [f \in {g \in DOMAIN cleaned : Truthy(g, cleaned[g])} |-> cleaned[f]]

\* self.model.objects.filter(pk__in=bulk_edit_ids)
filter_pk_in(ids) == Range(ids) \cap DOMAIN sendables

\* QuerySet.update(**update_dict): one UPDATE statement over the rows
queryset_update(rows, targets, upd) ==
  [pk \in DOMAIN rows |->
     IF pk \in targets
     THEN [f \in DOMAIN rows[pk] |-> IF f \in DOMAIN upd THEN upd[f] ELSE rows[pk][f]]
     ELSE rows[pk]]

\* One LogEntry of the bulk edit: who, which Sendable, and whether it had been
\* sent when it was edited (the field deltas are those of the request).
BulkLogEntry(user, sr_pk, rows, upd) ==
  [user_id |-> user.pk, object_id |-> sr_pk, kind |-> "Applied",
   flag |-> IF rows[sr_pk].message # "NULL" THEN "SENT" ELSE "UNSENT"]

BulkLogEntries(user, targets, rows, upd) ==
  LET order == Ascending(targets)
  IN  [i \in 1..Len(order) |-> BulkLogEntry(user, order[i], rows, upd)]

\* "%s messages updated successfully." % (len(bulk_edit_ids),)
reported_count(ids) == Len(ids)

perform_bulk_edits(user, method, ids, form) ==
  IF ~user.is_authenticated /\ user.is_staff
  THEN /\ last' = Ended("perform_bulk_edits", user, "401", "none")
       /\ UNCHANGED <<sendables, log>>
  ELSE IF method # "POST"
  THEN /\ last' = Ended("perform_bulk_edits", user, "405", "none")
       /\ UNCHANGED <<sendables, log>>
  ELSE LET bulk_edit_objs == filter_pk_in(ids)
           upd == update_dict(full_clean(form))
           rows == queryset_update(sendables, bulk_edit_objs, upd)
       IN  /\ IF DOMAIN upd # {}
              THEN /\ sendables' = rows
                   /\ log' = log \o BulkLogEntries(user, bulk_edit_objs, rows, upd)
              ELSE UNCHANGED <<sendables, log>>
           /\ last' = [Ended("perform_bulk_edits", user, "302", "success")
                         EXCEPT !.ids = ids, !.form = form, !.count = reported_count(ids)]

\* url(r'^bulk_edits/$', self.admin_site.admin_view(self.perform_bulk_edits))
\* A request that is turned away before request.POST is read is the same
\* request whatever its body: BulkNext takes it once, with the empty body.
ReadsBody(user, method) ==
  admin_view(user) /\ ~(~user.is_authenticated /\ user.is_staff) /\ method = "POST"

BulkEditsUrl(user, method, ids, form) ==
  /\ nreq < MaxRequests
  /\ nreq' = nreq + 1
  /\ IF admin_view(user)
     THEN perform_bulk_edits(user, method, ids, form)
     ELSE /\ last' = Ended("perform_bulk_edits", user, "login", "none")
          /\ UNCHANGED <<sendables, log>>
  /\ UNCHANGED <<inflight, fail_silently, failure_reason, template_id, templates>>

\* ------------------------------------------------- the transport adapter
\* What the provider does with one POST to messages.mime: the connection
\* fails, or a response arrives (the body of a gateway's 502 is not JSON).
NetOutcomes ==
  { [error |-> TRUE,  status |-> 0,   json |-> FALSE],
    [error |-> FALSE, status |-> 200, json |-> TRUE],
    [error |-> FALSE, status |-> 400, json |-> TRUE],
    [error |-> FALSE, status |-> 502, json |-> FALSE] }

\* json.dumps of the response body with its 'status' added
Diagnostic(net) == [set |-> TRUE, status |-> net.status]

\* EmailBackend._send: result is the returned boolean, raised the exception
\* that left the method ("none" when it returned), reason the value of
\* self.failure_reason afterwards, contacted whether requests.post was called.
EmailBackend_send(silent, reason, has_recipients, net) ==
  IF ~has_recipients
  THEN [result |-> FALSE, raised |-> "none", reason |-> reason, contacted |-> FALSE]
  ELSE IF net.error
  THEN [result |-> FALSE, raised |-> IF silent THEN "none" ELSE "TransportFault",
        reason |-> reason, contacted |-> TRUE]
  ELSE IF net.status # 200
  THEN IF ~net.json
       THEN [result |-> FALSE, raised |-> "ValueError", reason |-> reason, contacted |-> TRUE]
       ELSE [result |-> FALSE, raised |-> IF silent THEN "none" ELSE "MailgunAPIError",
             reason |-> Diagnostic(net), contacted |-> TRUE]
  ELSE [result |-> TRUE, raised |-> "none", reason |-> reason, contacted |-> TRUE]

\* EmailBackend.send_messages for the one message of a Sendable: num_sent
send_messages(silent, reason, has_recipients, net) ==
  LET r == EmailBackend_send(silent, reason, has_recipients, net)
  IN  [r EXCEPT !.result = (r.raised = "none" /\ r.result)]

\* ------------------------------------------------------------- obj.send
\* Sendable.send(recipient_address, is_test): render the template (a failure
\* of the rendering is captured and the send reported as failed), hand the
\* message to the transport, and on a successful real send mark the Sendable
\* sent and attach the message record.  A fault the transport raises leaves
\* obj.send as raised.
obj_send(row, is_test, silent, reason, render_ok, has_recipients, net) ==
  IF ~render_ok
  THEN [row |-> row, is_sent |-> FALSE, raised |-> "none", reason |-> reason,
        contacted |-> FALSE]
  ELSE LET r == send_messages(silent, reason, has_recipients, net)
       IN  [row |-> IF r.result /\ ~is_test
                    THEN [row EXCEPT !.is_sent = TRUE, !.message = "SENT"]
                    ELSE row,
            is_sent |-> r.result, raised |-> r.raised, reason |-> r.reason,
            contacted |-> r.contacted]

\* ------------------------------------------------------------ send views
\* Both views passing is_test=False
view_is_test_never(url) == FALSE

\* The is_test argument each view passes to send_message.

view_is_test(url) == url = "send-test"

\* send_message without the test for the user's email address
send_message_check_no_email_test(user, is_test) ==
  IF ~user.is_authenticated \/ ~user.is_staff THEN "404" ELSE "send"

\* send_message before obj.send: "404", "no_email" or "send"
send_message_check(user, is_test) ==
  IF ~user.is_authenticated \/ ~user.is_staff THEN "404"
  ELSE IF is_test /\ user.email = "" THEN "no_email"
  ELSE "send"

\* send_message writing its LogEntry outside the "if is_sent:" branch
send_message_outcome_always_logs(is_sent) ==
  [notice |-> IF is_sent THEN "success" ELSE "error", logged |-> TRUE]

\* send_message after obj.send returned is_sent: the notice and whether a
\* LogEntry is written
send_message_outcome(is_sent) ==
  IF is_sent THEN [notice |-> "success", logged |-> TRUE]
  ELSE [notice |-> "error", logged |-> FALSE]

SendLogEntry(user, obj_id, is_test) ==
  [user_id |-> user.pk, object_id |-> obj_id, kind |-> IF is_test THEN "Sent Test" ELSE "Sent",
   flag |-> ""]

OpOf(url) == IF url = "send-test" THEN "send_test_message" ELSE "send_real_message"

\* send_real_message / send_test_message up to the call of obj.send
SendView(w, url, user, method, obj_id) ==
  LET op == OpOf(url)
      is_test == view_is_test(url)
  IN  IF obj_id \notin DOMAIN sendables
      THEN /\ last' = [Ended(op, user, "404", "none") EXCEPT !.obj_id = obj_id]
           /\ UNCHANGED inflight
      ELSE IF method = "GET"
      THEN /\ last' = [Ended(op, user, "200", "none") EXCEPT !.obj_id = obj_id]
           /\ UNCHANGED inflight
      ELSE IF method # "POST"
      THEN \* the view returns None, which the framework refuses
           /\ last' = [Ended(op, user, "500", "none") EXCEPT !.obj_id = obj_id]
           /\ UNCHANGED inflight
      ELSE LET check == send_message_check(user, is_test)
           IN  IF check = "404"
               THEN /\ last' = [Ended(op, user, "404", "none")
                                  EXCEPT !.obj_id = obj_id, !.is_test = is_test]
                    /\ UNCHANGED inflight
               ELSE IF check = "no_email"
               THEN /\ last' = [Ended(op, user, "302", "error")
                                  EXCEPT !.obj_id = obj_id, !.is_test = is_test]
                    /\ UNCHANGED inflight
               ELSE /\ inflight' = [inflight EXCEPT ![w] =
                         [busy |-> TRUE, url |-> url, user |-> user, obj_id |-> obj_id,
                          is_test |-> is_test]]
                    /\ last' = [Ended(op, user, "pending", "none")
                                  EXCEPT !.obj_id = obj_id, !.is_test = is_test]

\* Which idle worker takes a request changes nothing: the first one does.
FirstIdle == CHOOSE w \in Workers : inflight[w] = Idle /\ (w = "w1" \/ inflight["w1"] # Idle)

\* url(r'^(.+)/send-test/$', self.admin_site.admin_view(self.send_test_message)),
\* url(r'^(.+)/send-real/$', self.admin_site.admin_view(self.send_real_message))
SendUrl(w, url, user, method, obj_id) ==
  /\ nreq < MaxRequests
  /\ inflight[w] = Idle
  /\ w = FirstIdle
  /\ nreq' = nreq + 1
  /\ IF admin_view(user)
     THEN SendView(w, url, user, method, obj_id)
     ELSE /\ last' = Ended(OpOf(url), user, "login", "none")
          /\ UNCHANGED inflight
  /\ UNCHANGED <<sendables, log, fail_silently, failure_reason, template_id, templates>>

\* obj.send returns (or raises) and send_message finishes
SendComplete(w, render_ok, has_recipients, net) ==
  /\ inflight[w] # Idle
  /\ LET call == inflight[w]
         sent == obj_send(sendables[call.obj_id], call.is_test, fail_silently,
                          failure_reason, render_ok, has_recipients, net)
         out == send_message_outcome(sent.is_sent)
         done == [Ended("send_message", call.user, "302", out.notice)
                    EXCEPT !.obj_id = call.obj_id, !.is_test = call.is_test,
                           !.contacted = sent.contacted,
                           !.net = IF sent.contacted THEN net ELSE NoNet]
     IN  /\ sendables' = [sendables EXCEPT ![call.obj_id] = sent.row]
         /\ failure_reason' = sent.reason
         /\ IF sent.raised # "none"
            THEN /\ last' = [done EXCEPT !.response = "500", !.notice = "none",
                                         !.result = sent.raised]
                 /\ UNCHANGED log
            ELSE /\ last' = [done EXCEPT !.result = IF sent.is_sent THEN "sent" ELSE "failed"]
                 /\ log' = IF out.logged
                           THEN Append(log, SendLogEntry(call.user, call.obj_id, call.is_test))
                           ELSE log
  /\ inflight' = [inflight EXCEPT ![w] = Idle]
  /\ UNCHANGED <<nreq, fail_silently, template_id, templates>>

\* ------------------------------------------------------ template freeze
Max(S) == CHOOSE x \in S : \A y \in S : y <= x

\* obj.freeze_template(): a private copy of the template the Sendable
\* references is created under a fresh id and the Sendable is rebound to it;
\* the original row and the other Sendables are left alone.
obj_freeze_template(tids, tmpls, pk) ==
  LET copy == Max(DOMAIN tmpls) + 1
  IN  [template_id |-> [tids EXCEPT ![pk] = copy],
       templates |-> [t \in DOMAIN tmpls \cup {copy} |->
                        IF t = copy
                        THEN [content |-> tmpls[tids[pk]].content, owner |-> pk]
                        ELSE tmpls[t]]]

\* The id the LogEntry names: obj.template_id, read after obj.freeze_template()
logged_template_id(before, after) == after

FreezeLogEntry(user, obj_id, tid) ==
  [user_id |-> user.pk, object_id |-> obj_id, kind |-> "Froze", flag |-> "",
   template_id |-> tid]

freeze_template(user, obj_id) ==
  IF ~user.is_authenticated \/ ~user.is_staff
  THEN /\ last' = [Ended("freeze_template", user, "404", "none") EXCEPT !.obj_id = obj_id]
       /\ UNCHANGED <<log, template_id, templates>>
  ELSE IF obj_id \notin DOMAIN sendables
  THEN /\ last' = [Ended("freeze_template", user, "404", "none") EXCEPT !.obj_id = obj_id]
       /\ UNCHANGED <<log, template_id, templates>>
  ELSE LET frozen == obj_freeze_template(template_id, templates, obj_id)
       IN  /\ template_id' = frozen.template_id
           /\ templates' = frozen.templates
           /\ log' = Append(log, FreezeLogEntry(user, obj_id,
                        logged_template_id(template_id[obj_id], frozen.template_id[obj_id])))
           /\ last' = [Ended("freeze_template", user, "302", "none") EXCEPT !.obj_id = obj_id]

\* url(r'^(.+)/freeze-template/$', self.admin_site.admin_view(self.freeze_template))
FreezeUrl(user, obj_id) ==
  /\ nreq < MaxRequests
  /\ nreq' = nreq + 1
  /\ IF admin_view(user)
     THEN freeze_template(user, obj_id)
     ELSE /\ last' = Ended("freeze_template", user, "login", "none")
          /\ UNCHANGED <<log, template_id, templates>>
  /\ UNCHANGED <<sendables, inflight, fail_silently, failure_reason>>

\* The table before the first request: Sendable 1 is an unscheduled draft
\* that has been cancelled, Sendable 2 is scheduled; nothing has been sent.
Sendables0 ==
  {rows \in [ExistingIds ->
               [scheduled_send_time : {None, T0}, cancelled_at_send_time : BOOLEAN,
                is_sent : {FALSE}, message : {"NULL"}]] :
     /\ rows[1].scheduled_send_time = None /\ rows[1].cancelled_at_send_time
     /\ rows[2].scheduled_send_time = T0 /\ ~rows[2].cancelled_at_send_time}

Init ==
  /\ sendables \in Sendables0
  /\ log = <<>>
  /\ inflight = [w \in Workers |-> Idle]
  /\ nreq = 0
  /\ fail_silently \in BOOLEAN
  /\ failure_reason = Unset
  /\ last = Ended("none", CHOOSE u \in Users : u.pk = "anon", "none", "none")
  \* both Sendables render from the one shared template
  /\ template_id = [pk \in ExistingIds |-> 1]
  /\ templates = [t \in {1} |-> [content |-> "shared", owner |-> 0]]

BulkNext ==
  /\ nreq < MaxRequests
  /\ \E user \in Users, method \in Methods :
       \E ids \in (IF ReadsBody(user, method) THEN IdLists ELSE {<<>>}),
          form \in (IF ReadsBody(user, method) THEN Forms ELSE {NoForm}) :
         BulkEditsUrl(user, method, ids, form)

\* A request turned away at the door is the same whatever it asks for: it is
\* taken once, as a GET for Sendable 1.
SendNext ==
  /\ nreq < MaxRequests
  /\ \E w \in Workers : inflight[w] = Idle
  /\ \E url \in {"send-test", "send-real"}, user \in Users :
       \E method \in (IF admin_view(user) THEN Methods ELSE {"GET"}),
          obj_id \in (IF admin_view(user) THEN SubmittableIds ELSE {1}) :
         SendUrl(FirstIdle, url, user, method, obj_id)

CompleteNext ==
  \E w \in Workers, render_ok \in BOOLEAN, has_recipients \in BOOLEAN, net \in NetOutcomes :
    \* an outcome that is never consulted is taken once
    /\ render_ok \/ has_recipients
    /\ (render_ok /\ has_recipients) \/ net = CHOOSE n \in NetOutcomes : n.status = 200
    /\ SendComplete(w, render_ok, has_recipients, net)

FreezeNext ==
  /\ nreq < MaxRequests
  /\ \E user \in Users :
       \E obj_id \in (IF admin_view(user) THEN SubmittableIds ELSE {1}) :
         FreezeUrl(user, obj_id)

Next == BulkNext \/ SendNext \/ CompleteNext \/ FreezeNext

Spec == Init /\ [][Next]_vars

\* The send views and the transport alone.
SpecSend == Init /\ [][SendNext \/ CompleteNext]_vars

\* The bulk edit alone.
SpecBulk == Init /\ [][BulkNext]_vars

\* The template freeze, with the bulk edit beside it.
SpecFreeze == Init /\ [][FreezeNext \/ BulkNext]_vars

\* ------------------------------------------------------------- the claims
StaffUser(user) == user.is_authenticated /\ user.is_staff

\* the step in which the bulk edit URL received a request
BulkStep == nreq' = nreq + 1 /\ last'.op = "perform_bulk_edits"

\* the step in which a send URL received a request
SendStep == nreq' = nreq + 1 /\ last'.op \in {"send_test_message", "send_real_message"}

\* the step in which worker w's obj.send ended and send_message finished
CompleteStep(w) == inflight[w] # Idle /\ inflight'[w] = Idle

\* the submitted date / time parts are malformed or only one of them is given
Malformed(form) ==
  form.date = "bad" \/ form.time = "bad" \/ ((form.date = "") # (form.time = ""))

\* the submitted date / time parts are both given and well formed
WellFormed(form) == form.date \notin {"", "bad"} /\ form.time \notin {"", "bad"}

\* C1: a bulk edit whose form has a valid non-empty field and a malformed or
\* partial date/time combination changes no Sendable, writes no audit entry
\* and does not end in a success notice.
C1_BulkEditAllOrNothing ==
  [][(BulkStep /\ last'.response \notin {"login", "401", "405"}
        /\ Range(last'.ids) \cap ExistingIds # {}
        /\ last'.form.cancelled /\ Malformed(last'.form))
       => (sendables' = sendables /\ log' = log /\ last'.notice # "success")]_vars

\* C2: a send request by a caller who is not an authenticated staff user, or a
\* test send by a user without an email address, never enters obj.send, writes
\* no audit entry and leaves every Sendable (is_sent, message) as it was.
C2_SendChecksBeforeSideEffects ==
  [][(SendStep /\ (~StaffUser(last'.user)
                   \/ (last'.op = "send_test_message" /\ last'.user.email = "")))
       => (inflight' = inflight /\ log' = log /\ sendables' = sendables)]_vars

\* C2 witness: a staff user without an email address posted a test send and
\* was turned away with the error notice.
C2_Witness ==
  /\ last.op = "send_test_message" /\ last.is_test
  /\ StaffUser(last.user) /\ last.user.email = ""
  /\ last.response = "302" /\ last.notice = "error"
  /\ \A w \in Workers : inflight[w] = Idle

\* C3: a send attempt that reports failure leaves every Sendable as it was,
\* writes no audit entry and ends with the error notice; is_sent changes only
\* in the step that finishes a successful send.
C3_FailedSendNeverMarksSent ==
  [][/\ \A w \in Workers :
          (CompleteStep(w) /\ last'.result = "failed")
            => (sendables' = sendables /\ log' = log /\ last'.notice = "error")
     /\ \A pk \in ExistingIds :
          sendables'[pk].is_sent # sendables[pk].is_sent
            => (last'.result = "sent" /\ \E w \in Workers : CompleteStep(w))]_vars

\* C3 witness: the provider was contacted, the send failed, the error notice
\* was shown and the Sendable is still unsent.
C3_Witness ==
  /\ last.op = "send_message" /\ last.result = "failed" /\ last.contacted
  /\ ~last.is_test /\ last.notice = "error"
  /\ ~sendables[last.obj_id].is_sent

\* C4 (as claimed): no step moves a cancelled Sendable to is_sent.
C4_CancelledNeverSent ==
  [][\A pk \in ExistingIds :
       (sendables[pk].cancelled_at_send_time /\ ~sendables[pk].is_sent)
         => ~sendables'[pk].is_sent]_vars

\* C4 (amended): a cancelled Sendable is moved to is_sent only by the step
\* that finishes a successful real send requested through the send-real URL
\* by an authenticated staff user.
C4_CancelledSentOnlyByManualRealSend ==
  [][\A pk \in ExistingIds :
       (sendables[pk].cancelled_at_send_time /\ ~sendables[pk].is_sent
          /\ sendables'[pk].is_sent)
         => \E w \in Workers :
              /\ CompleteStep(w)
              /\ inflight[w].url = "send-real" /\ inflight[w].obj_id = pk
              /\ StaffUser(inflight[w].user)
              /\ last'.result = "sent"]_vars

\* C4 witness: a manual real send of a cancelled Sendable succeeded and the
\* Sendable is marked sent.
C4_Witness ==
  /\ last.op = "send_message" /\ ~last.is_test /\ last.result = "sent"
  /\ sendables[last.obj_id].cancelled_at_send_time
  /\ sendables[last.obj_id].is_sent

\* C5: whatever fails during a send (rendering, the connection, a non-200
\* response), send_message returns normally with the error notice and every
\* Sendable's is_sent is unchanged.
C5_SendFaultsNeverPropagate ==
  [][\A w \in Workers :
       (CompleteStep(w) /\ last'.result # "sent")
         => /\ last'.response = "302" /\ last'.notice = "error"
            /\ \A pk \in ExistingIds : sendables'[pk].is_sent = sendables[pk].is_sent]_vars

\* C6: with fail_silently set, a connection failure or a non-200 response
\* makes _send return False without raising, and the diagnostic of that
\* failure is the adapter's failure_reason afterwards.
C6_FailSilentlySwallowsAndRetains ==
  (last.op = "send_message" /\ fail_silently /\ last.contacted
     /\ (last.net.error \/ last.net.status # 200))
    => (last.result = "failed" /\ failure_reason = Diagnostic(last.net))

\* C7: the count a bulk edit reports is the number of existing Sendables
\* among the submitted ids.
C7_ReportedCountIsAffected ==
  (last.op = "perform_bulk_edits" /\ last.response = "302")
    => last.count = Cardinality(Range(last.ids) \cap ExistingIds)

\* C8: an applied bulk edit gives every targeted Sendable the submitted value
\* of each non-empty field, leaves a field whose submitted value is empty (or
\* did not validate) as it was, and leaves every other Sendable unchanged.
C8_BulkEditChangesOnlySubmittedFields ==
  [][(BulkStep /\ last'.response = "302")
       => \A pk \in ExistingIds :
            LET form == last'.form
                targeted == pk \in Range(last'.ids)
                old == sendables[pk]
                new == sendables'[pk]
            IN  /\ new.scheduled_send_time =
                     IF targeted /\ WellFormed(form) THEN <<form.date, form.time>>
                     ELSE old.scheduled_send_time
                /\ new.cancelled_at_send_time =
                     IF targeted /\ form.cancelled THEN TRUE
                     ELSE old.cancelled_at_send_time
                /\ new.is_sent = old.is_sent
                /\ new.message = old.message]_vars

\* C8 witness: a bulk edit with only the date and time filled in, aimed at
\* both Sendables, rescheduled both and left the cancellation of each as it
\* was (Sendable 1 cancelled, Sendable 2 not).
C8_Witness ==
  /\ last.op = "perform_bulk_edits" /\ last.response = "302"
  /\ last.form = [date |-> "2024-01-01", time |-> "10:00:00", cancelled |-> FALSE]
  /\ last.ids = <<1, 2>>
  /\ \A pk \in ExistingIds : sendables[pk].scheduled_send_time = <<"2024-01-01", "10:00:00">>
  /\ sendables[1].cancelled_at_send_time /\ ~sendables[2].cancelled_at_send_time
  /\ Len(log) = 2

\* C9: a bulk edit request by a user who is not both authenticated and staff
\* updates no Sendable and writes no audit entry.
C9_BulkEditNeedsStaff ==
  [][(BulkStep /\ ~StaffUser(last'.user)) => (sendables' = sendables /\ log' = log)]_vars

\* C9 witness: an authenticated user who is not staff requested a bulk edit
\* after an earlier one had been applied, and nothing was changed.
C9_Witness ==
  /\ last.op = "perform_bulk_edits" /\ last.user.is_authenticated /\ ~last.user.is_staff
  /\ last.response = "login"
  /\ nreq = 2 /\ Len(log) > 0

\* C10: no two real sends of the same unsent Sendable are in flight at once.
C10_OneSendInFlight ==
  \A w1, w2 \in Workers :
    (w1 # w2 /\ inflight[w1] # Idle /\ inflight[w2] # Idle)
      => ~(/\ inflight[w1].obj_id = inflight[w2].obj_id
           /\ ~inflight[w1].is_test /\ ~inflight[w2].is_test
           /\ ~sendables[inflight[w1].obj_id].is_sent)

\* the step in which the freeze URL received a request
FreezeStep == nreq' = nreq + 1 /\ last'.op = "freeze_template"

\* C11: an authorised freeze_template call on an existing Sendable writes
\* exactly one audit entry, which names the template the Sendable referenced
\* before the freeze (not the private copy it is rebound to); the original
\* template row and the template of every other Sendable are unchanged.
C11_FreezeLogsOriginalTemplate ==
  [][(FreezeStep /\ last'.response = "302")
       => LET pk == last'.obj_id
          IN  /\ Len(log') = Len(log) + 1
              /\ SubSeq(log', 1, Len(log)) = log
              /\ log'[Len(log')].kind = "Froze"
              /\ log'[Len(log')].template_id = template_id[pk]
              /\ template_id'[pk] # template_id[pk]
              /\ \A t \in DOMAIN templates : templates'[t] = templates[t]
              /\ \A other \in ExistingIds \ {pk} :
                   template_id'[other] = template_id[other]]_vars

====
